---- MODULE Spec2Model ----
(***************************************************************************)
(* Model of the blueorca backend (src/openai.js, src/unnamed/part_000):    *)
(* the /api/send-otp rate limiter, /api/verify-otp, the streaming chat     *)
(* relay /api/chat-stream/:chatId, /api/chat and /api/messages/:chatId.    *)
(*                                                                         *)
(* Every `await` of a handler is one step of the model: the statement the  *)
(* handler is suspended on runs atomically when the step is taken, and the *)
(* clock may advance between steps.  The sqlite store is assumed to be     *)
(* available (its statements do not throw); the e-mail provider and the    *)
(* model stream may fail.                                                  *)
(***************************************************************************)
EXTENDS Bags, FiniteSets, Integers, Sequences, TLC

(* ------------------------------ bounds -------------------------------- *)

\* handler instances that can be in flight at once, per route
MaxInFlight == 2
\* rows the otp_sends table may hold before new send-otp requests stop
MaxRows == 6
\* rows otp_sends may hold in the per-address scenario
MaxIpRows == 16
\* rows otp_sends may hold in the verification scenario
MaxCodeRows == 2
\* rows the messages table may hold once a chat-stream request has run
MaxMessages == 4
\* chunks one model stream may yield
MaxChunks == 3
\* rows the chats table may hold
MaxChats == 2
\* chunks one model stream may yield when invocations overlap
MaxTurnChunks == 2

Slots == 1 .. MaxInFlight

(* -------------------------- program constants ------------------------- *)

MAX_SENDS == 5
WINDOW_MS == 15 * 60 * 1000
\* variant: a block shorter than the window
BlockShort == 5 * 60 * 1000
BLOCK_MS == 15 * 60 * 1000
\* `nowTs + 5 * 60 * 1000`
CODE_TTL_MS == 5 * 60 * 1000
\* variant: a wider per-address limit
IpLimitWide == MAX_SENDS * 4

\* `MAX_SENDS * 3`
IpLimit == MAX_SENDS * 3

(* ------------------------------- state -------------------------------- *)

VARIABLES
    now,        \* Date.now(), in milliseconds
    users,      \* table users: registered email -> verified (0 or 1)
    otps,       \* table otps: bag of rows [email, code, expires_at]
    otp_sends,  \* table otp_sends: bag of rows [email, ip, ts] (id is never read)
    mails,      \* bag of the messages [to, code] handed to resend.emails.send
    so,         \* /api/send-otp handler instances
    vo,         \* /api/verify-otp handler instances
    issued,     \* history of the codes stored by send-otp: [email, code, at, st]
    messages,   \* table messages: rows [chat_id, role, content] in id order
    cs,         \* /api/chat-stream/:chatId handler instances
    chats,      \* table chats: rows [user_id] in id order (title is never read)
    ms,         \* /api/messages/:chatId handler instances
    overlapped  \* history: some send-otp call began while another was running

vars ==
    <<now, users, otps, otp_sends, mails, so, vo, issued, messages, cs, chats,
      ms, overlapped>>
otpVars == <<now, users, otps, otp_sends, mails, so, vo, issued, overlapped>>
chatVars == <<messages, cs, chats, ms>>

Pending == [status |-> 0]

SoIdle ==
    [pc |-> "idle", email |-> "", ip |-> "", nowTs |-> 0, code |-> "",
     expires |-> 0, res |-> Pending]

VoIdle ==
    [pc |-> "idle", email |-> "", code |-> "", checkTs |-> 0, res |-> Pending]

\* user: req.user.id; full: the captured reply; sink: what reached the client
\* through the original res.write; produced: the chunks the model stream has
\* yielded so far; open: the client connection is up; turn: the id of the user
\* row the invocation inserted; alone: no other invocation on the same chat
\* has run during this one
CsIdle ==
    [pc |-> "idle", user |-> 0, chatId |-> 0, message |-> "", history |-> <<>>,
     full |-> "", sink |-> "", produced |-> <<>>, err |-> FALSE, ended |-> FALSE,
     open |-> TRUE, turn |-> 0, alone |-> TRUE]

MsIdle == [pc |-> "idle", user |-> 0, chatId |-> 0, res |-> Pending]

(* --------------------------- pure helpers ----------------------------- *)

\* Math.ceil(x / d) for an integer x and d > 0
CeilDiv(x, d) == IF x % d = 0 THEN x \div d ELSE (x \div d) + 1

NoHeader == <<"none">>

\* (xf && xf.split(',').shift().trim()) || req.ip || 'unknown'
\* xf is the header already split at the commas and trimmed, or NoHeader
ClientIp(xf, reqIp) ==
    IF xf # NoHeader /\ Len(xf) > 0 /\ Head(xf) # "" THEN Head(xf)
    ELSE IF reqIp # "" THEN reqIp
    ELSE "unknown"

WindowStart(nowTs) == nowTs - WINDOW_MS

\* SELECT ts FROM otp_sends WHERE email=? AND ts>?
RecentSends(sends, email, windowStart) ==
    LET keep == {r \in DOMAIN sends : r.email = email /\ r.ts > windowStart}
    IN  [r \in keep |-> sends[r]]

\* recentSends[0].ts under ORDER BY ts DESC: the newest of the fetched rows
LastSendTs(recent) ==
    CHOOSE t \in {r.ts : r \in DOMAIN recent} :
        \A r \in DOMAIN recent : r.ts <= t

\* variant: the seconds are rounded down
RetryAfterFloor(blockedUntil, nowTs) == (blockedUntil - nowTs) \div 1000

RetryAfter(blockedUntil, nowTs) == CeilDiv(blockedUntil - nowTs, 1000)

\* variant: a lifetime cap, the query without `AND ts>?` and the block without
\* the comparison of blockedUntil with nowTs
EmailGateForever(sends, email, nowTs) ==
    LET all == [r \in {x \in DOMAIN sends : x.email = email} |-> sends[r]]
    IN  IF BagCardinality(all) >= MAX_SENDS
        THEN [blocked |-> TRUE,
              retryAfter |-> RetryAfter(LastSendTs(all) + BLOCK_MS, nowTs)]
        ELSE [blocked |-> FALSE]

\* variant: the threshold is one attempt higher
EmailGateSix(sends, email, nowTs) ==
    LET recent == RecentSends(sends, email, WindowStart(nowTs))
    IN  IF /\ BagCardinality(recent) >= MAX_SENDS + 1
           /\ LastSendTs(recent) + BLOCK_MS > nowTs
        THEN [blocked |-> TRUE,
              retryAfter |-> RetryAfter(LastSendTs(recent) + BLOCK_MS, nowTs)]
        ELSE [blocked |-> FALSE]

\* the per-email check: recentSends.length >= MAX_SENDS, blockedUntil > nowTs,
\* and the retryAfter of the 429 answer
EmailGate(sends, email, nowTs) ==
    LET recent == RecentSends(sends, email, WindowStart(nowTs))
    IN  IF /\ BagCardinality(recent) >= MAX_SENDS
           /\ LastSendTs(recent) + BLOCK_MS > nowTs
        THEN [blocked |-> TRUE,
              retryAfter |-> RetryAfter(LastSendTs(recent) + BLOCK_MS, nowTs)]
        ELSE [blocked |-> FALSE]

\* SELECT COUNT(1) AS c FROM otp_sends WHERE ip=? AND ts>?
IpCount(sends, ip, windowStart) ==
    LET keep == {r \in DOMAIN sends : r.ip = ip /\ r.ts > windowStart}
    IN  BagCardinality([r \in keep |-> sends[r]])

IpBlocked(sends, ip, nowTs) == IpCount(sends, ip, WindowStart(nowTs)) >= IpLimit

\* Math.floor(100000 + Math.random() * 900000).toString(), for the draw n
OtpCode(n) == ToString(n)

DeleteWhereEmail(rows, email) ==
    [r \in {x \in DOMAIN rows : x.email # email} |-> rows[r]]

\* variant: the old rows are left in place
RemoveOldOtpSkipped(rows, email) == rows

\* DELETE FROM otps WHERE email=?   (send-otp, before the insert)
RemoveOldOtp(rows, email) == DeleteWhereEmail(rows, email)

\* variant: the verified row is left in place
ConsumeOtpSkipped(rows, email) == rows

\* DELETE FROM otps WHERE email=?   (verify-otp, after a successful check)
ConsumeOtp(rows, email) == DeleteWhereEmail(rows, email)

\* INSERT INTO otps (email, code, expires_at)
InsertOtp(rows, email, code, expires) ==
    rows (+) SetToBag({[email |-> email, code |-> code, expires_at |-> expires]})

\* variant: the attempt is not written
RecordAttemptSkipped(sends, email, ip, ts) == sends

\* INSERT INTO otp_sends (email, ip, ts)
RecordAttempt(sends, email, ip, ts) ==
    sends (+) SetToBag({[email |-> email, ip |-> ip, ts |-> ts]})

\* variant: the code is not compared
MatchingOtpsAnyCode(rows, email, code) == {r \in DOMAIN rows : r.email = email}

\* SELECT * FROM otps WHERE email=? AND code=?   -- the rows that match
MatchingOtps(rows, email, code) ==
    {r \in DOMAIN rows : r.email = email /\ r.code = code}

\* variant: a code is rejected already at its expiry instant
OtpExpiredAtExpiry(otp, t) == otp.expires_at <= t

\* otp.expires_at < Date.now()
OtpExpired(otp, t) == otp.expires_at < t

\* UPDATE users SET verified=1 WHERE email=?
SetVerified(u, email) ==
    [e \in DOMAIN u |-> IF e = email THEN 1 ELSE u[e]]

(* history of issued codes: one record per (email, code), the last issue *)
IssueCode(iss, email, code, at) ==
    {r \in iss : r.email # email}
    \cup {[r EXCEPT !.st = IF r.st = "live" THEN "replaced" ELSE r.st] :
            r \in {x \in iss : x.email = email /\ x.code # code}}
    \cup {[email |-> email, code |-> code, at |-> at, st |-> "live"]}

UseCode(iss, email, code) ==
    {IF r.email = email /\ r.code = code THEN [r EXCEPT !.st = "used"] ELSE r :
        r \in iss}

(* ------------------------------ actions ------------------------------- *)

Init ==
    /\ now = 0
    /\ users = <<>>
    /\ otps = EmptyBag
    /\ otp_sends = EmptyBag
    /\ mails = EmptyBag
    /\ so = [s \in Slots |-> SoIdle]
    /\ vo = [s \in Slots |-> VoIdle]
    /\ issued = {}
    /\ messages = <<>>
    /\ cs = [s \in Slots |-> CsIdle]
    /\ chats = <<>>
    /\ ms = [s \in Slots |-> MsIdle]
    /\ overlapped = FALSE

\* the clock moves forward to one of the given instants
Tick(instants) ==
    /\ \E t \in instants : t > now /\ now' = t
    /\ UNCHANGED <<chatVars, overlapped, users, otps, otp_sends, mails, so, vo, issued>>

\* no handler is between its first and its last step
Quiet ==
    /\ \A s \in Slots : so[s].pc \in {"idle", "done"}
    /\ \A s \in Slots : vo[s].pc \in {"idle", "done"}
    /\ \A s \in Slots : cs[s].pc \in {"idle", "done"}
    /\ \A s \in Slots : ms[s].pc \in {"idle", "done"}

\* POST /api/register: INSERT INTO users (email, password); email is UNIQUE
Register(email) ==
    /\ email # ""
    /\ email \notin DOMAIN users
    /\ users' = [e \in DOMAIN users \cup {email} |->
                    IF e = email THEN 0 ELSE users[e]]
    /\ UNCHANGED <<chatVars, overlapped, now, otps, otp_sends, mails, so, vo, issued>>

\* POST /api/send-otp, up to the first await
SendOtpStart(s, email, xf, reqIp, maxRows) ==
    /\ so[s].pc \in {"idle", "done"}
    /\ BagCardinality(otp_sends) < maxRows
    /\ so' = [so EXCEPT ![s] =
                IF email = ""
                THEN [SoIdle EXCEPT !.pc = "done",
                        !.res = [status |-> 400, error |-> "Email required"]]
                ELSE [SoIdle EXCEPT !.pc = "db_all", !.email = email,
                        !.ip = ClientIp(xf, reqIp), !.nowTs = now]]
    /\ overlapped' =
            (\/ overlapped
             \/ email # "" /\ \E t \in Slots \ {s} : so[t].pc \notin {"idle", "done"})
    /\ UNCHANGED <<chatVars, now, users, otps, otp_sends, mails, vo, issued>>

\* variant: a rejected call is recorded as an attempt, too
SendOtpCountEmailCharging(s) ==
    /\ so[s].pc = "db_all"
    /\ LET gate == EmailGate(otp_sends, so[s].email, so[s].nowTs)
       IN  /\ so' = [so EXCEPT ![s] =
                    IF gate.blocked
                    THEN [@ EXCEPT !.pc = "done",
                            !.res = [status |-> 429,
                                     error |-> "Too many OTP requests. Try later.",
                                     retryAfter |-> gate.retryAfter]]
                    ELSE [@ EXCEPT !.pc = "db_get"]]
           /\ otp_sends' =
                IF gate.blocked
                THEN RecordAttempt(otp_sends, so[s].email, so[s].ip, so[s].nowTs)
                ELSE otp_sends
    /\ UNCHANGED <<chatVars, overlapped, now, users, otps, mails, vo, issued>>

\* db.all(recent sends of the email) and the per-email check
SendOtpCountEmail(s) ==
    /\ so[s].pc = "db_all"
    /\ LET gate == EmailGate(otp_sends, so[s].email, so[s].nowTs)
       IN  so' = [so EXCEPT ![s] =
                    IF gate.blocked
                    THEN [@ EXCEPT !.pc = "done",
                            !.res = [status |-> 429,
                                     error |-> "Too many OTP requests. Try later.",
                                     retryAfter |-> gate.retryAfter]]
                    ELSE [@ EXCEPT !.pc = "db_get"]]
    /\ UNCHANGED <<chatVars, overlapped, now, users, otps, otp_sends, mails, vo, issued>>

\* db.get(count of the ip), the per-ip check, and the code generation
SendOtpCountIp(s, draws) ==
    /\ so[s].pc = "db_get"
    /\ IF IpBlocked(otp_sends, so[s].ip, so[s].nowTs)
       THEN so' = [so EXCEPT ![s] =
                    [@ EXCEPT !.pc = "done",
                        !.res = [status |-> 429,
                                 error |-> "Too many requests from this IP"]]]
       ELSE \E n \in draws :
                so' = [so EXCEPT ![s] =
                        [@ EXCEPT !.pc = "db_delete", !.code = OtpCode(n),
                            !.expires = so[s].nowTs + CODE_TTL_MS]]
    /\ UNCHANGED <<chatVars, overlapped, now, users, otps, otp_sends, mails, vo, issued>>

\* db.run(DELETE FROM otps WHERE email=?)
SendOtpDelete(s) ==
    /\ so[s].pc = "db_delete"
    /\ otps' = RemoveOldOtp(otps, so[s].email)
    /\ so' = [so EXCEPT ![s].pc = "db_insert"]
    /\ UNCHANGED <<chatVars, overlapped, now, users, otp_sends, mails, vo, issued>>

\* db.run(INSERT INTO otps ...)
SendOtpInsert(s) ==
    /\ so[s].pc = "db_insert"
    /\ otps' = InsertOtp(otps, so[s].email, so[s].code, so[s].expires)
    /\ issued' = IssueCode(issued, so[s].email, so[s].code, so[s].nowTs)
    /\ so' = [so EXCEPT ![s].pc = "db_record"]
    /\ UNCHANGED <<chatVars, overlapped, now, users, otp_sends, mails, vo>>

\* db.run(INSERT INTO otp_sends ...)
SendOtpRecord(s) ==
    /\ so[s].pc = "db_record"
    /\ otp_sends' = RecordAttempt(otp_sends, so[s].email, so[s].ip, so[s].nowTs)
    /\ so' = [so EXCEPT ![s].pc = "send"]
    /\ UNCHANGED <<chatVars, overlapped, now, users, otps, mails, vo, issued>>

\* resend.emails.send(...) is called; it resolves, or it rejects
SendOtpSend(s) ==
    /\ so[s].pc = "send"
    /\ mails' = mails (+) SetToBag({[to |-> so[s].email, code |-> so[s].code]})
    /\ \/ so' = [so EXCEPT ![s] =
                    [@ EXCEPT !.pc = "done", !.res = [status |-> 200, ok |-> TRUE]]]
       \/ so' = [so EXCEPT ![s].pc = "catch"]
    /\ UNCHANGED <<chatVars, overlapped, now, users, otps, otp_sends, vo, issued>>

\* catch (err): res.status(500)
SendOtpCatch(s) ==
    /\ so[s].pc = "catch"
    /\ so' = [so EXCEPT ![s] =
                [@ EXCEPT !.pc = "done",
                    !.res = [status |-> 500, error |-> "Gagal kirim OTP"]]]
    /\ UNCHANGED <<chatVars, overlapped, now, users, otps, otp_sends, mails, vo, issued>>

\* POST /api/verify-otp, up to the first await
VerifyStart(s, email, code) ==
    /\ vo[s].pc \in {"idle", "done"}
    /\ vo' = [vo EXCEPT ![s] =
                IF email = "" \/ code = ""
                THEN [VoIdle EXCEPT !.pc = "done",
                        !.res = [status |-> 400, error |-> "Email & code required"]]
                ELSE [VoIdle EXCEPT !.pc = "db_get", !.email = email, !.code = code]]
    /\ UNCHANGED <<chatVars, overlapped, now, users, otps, otp_sends, mails, so, issued>>

\* db.get(otp of the email and code) and `!otp || otp.expires_at < Date.now()`.
\* db.get yields one of the matching rows (the query has no ORDER BY), or none.
VerifyGet(s) ==
    /\ vo[s].pc = "db_get"
    /\ LET found == MatchingOtps(otps, vo[s].email, vo[s].code)
           reject == [vo EXCEPT ![s] =
                        [@ EXCEPT !.pc = "done", !.checkTs = now,
                            !.res = [status |-> 400,
                                     error |-> "OTP invalid / expired"]]]
       IN  IF found = {}
           THEN vo' = reject
           ELSE \E otp \in found :
                    IF OtpExpired(otp, now)
                    THEN vo' = reject
                    ELSE vo' = [vo EXCEPT ![s] =
                                    [@ EXCEPT !.pc = "db_update", !.checkTs = now]]
    /\ UNCHANGED <<chatVars, overlapped, now, users, otps, otp_sends, mails, so, issued>>

\* db.run(UPDATE users SET verified=1 WHERE email=?)
VerifyUpdate(s) ==
    /\ vo[s].pc = "db_update"
    /\ users' = SetVerified(users, vo[s].email)
    /\ vo' = [vo EXCEPT ![s].pc = "db_delete"]
    /\ UNCHANGED <<chatVars, overlapped, now, otps, otp_sends, mails, so, issued>>

\* db.run(DELETE FROM otps WHERE email=?) and res.json({ ok: true })
VerifyDelete(s) ==
    /\ vo[s].pc = "db_delete"
    /\ otps' = ConsumeOtp(otps, vo[s].email)
    /\ issued' = UseCode(issued, vo[s].email, vo[s].code)
    /\ vo' = [vo EXCEPT ![s] =
                [@ EXCEPT !.pc = "done", !.res = [status |-> 200, ok |-> TRUE]]]
    /\ UNCHANGED <<chatVars, overlapped, now, users, otp_sends, mails, so>>

(* --------------------------- specifications --------------------------- *)

\* inputs of the rate-limit scenario
RateEmails == {"", "a@x.com", "b@x.com"}
RateAddrs ==
    {[xf |-> <<"1.1.1.1", "9.9.9.9">>, ip |-> "2.2.2.2"],
     [xf |-> NoHeader, ip |-> "2.2.2.2"]}
RateInstants == {1, WINDOW_MS}
RateDraws == {100000}

\* requests are handled one after the other
NextRate ==
    \/ Tick(RateInstants)
    \/ \E e \in RateEmails, a \in RateAddrs :
            Quiet /\ SendOtpStart(1, e, a.xf, a.ip, MaxRows)
    \/ SendOtpCountEmail(1)
    \/ SendOtpCountIp(1, RateDraws)
    \/ SendOtpDelete(1)
    \/ SendOtpInsert(1)
    \/ SendOtpRecord(1)
    \/ SendOtpSend(1)
    \/ SendOtpCatch(1)

SpecRate == Init /\ [][NextRate]_vars

\* inputs of the verification scenario
CodeEmails == {"a@x.com", "b@x.com"}
CodeAddrs == {[xf |-> <<"">>, ip |-> ""]}
CodeInstants == {CODE_TTL_MS, CODE_TTL_MS + 1}
CodeDraws == {100000, 999999}
CodeInputs == {"", "100000", "999999"}

NextCode ==
    \/ Tick(CodeInstants)
    \/ Register("a@x.com")
    \/ \E e \in CodeEmails, a \in CodeAddrs :
            Quiet /\ SendOtpStart(1, e, a.xf, a.ip, MaxCodeRows)
    \/ SendOtpCountEmail(1)
    \/ SendOtpCountIp(1, CodeDraws)
    \/ SendOtpDelete(1)
    \/ SendOtpInsert(1)
    \/ SendOtpRecord(1)
    \/ SendOtpSend(1)
    \/ SendOtpCatch(1)
    \/ \E e \in CodeEmails, c \in CodeInputs : Quiet /\ VerifyStart(1, e, c)
    \/ VerifyGet(1)
    \/ VerifyUpdate(1)
    \/ VerifyDelete(1)

SpecCode == Init /\ [][NextCode]_vars

\* inputs of the per-address scenario
IpEmails == {"a@x.com", "b@x.com", "c@x.com", "d@x.com"}
IpAddrs ==
    {[email |-> e, xf |-> <<"1.1.1.1">>, ip |-> "2.2.2.2"] : e \in IpEmails}
    \cup {[email |-> "d@x.com", xf |-> NoHeader, ip |-> "2.2.2.2"]}
IpInstants == {WINDOW_MS - 1, WINDOW_MS}
\* the clock is held until the table holds all but one of the rows of the limit
NearIpLimit == BagCardinality(otp_sends) >= IpLimit - 1

NextIp ==
    \/ NearIpLimit /\ Tick(IpInstants)
    \/ \E a \in IpAddrs : Quiet /\ SendOtpStart(1, a.email, a.xf, a.ip, MaxIpRows)
    \/ SendOtpCountEmail(1)
    \/ SendOtpCountIp(1, RateDraws)
    \/ SendOtpDelete(1)
    \/ SendOtpInsert(1)
    \/ SendOtpRecord(1)
    \/ SendOtpSend(1)
    \/ SendOtpCatch(1)

SpecIp == Init /\ [][NextIp]_vars

\* inputs of the scenario with overlapping send-otp calls
RaceEmails == {"a@x.com"}
RaceAddrs == {[xf |-> NoHeader, ip |-> "2.2.2.2"]}
RaceInstants == {1, WINDOW_MS}
RaceDraws == {100000}
\* calls overlap only once the table holds all but one of the attempts of the
\* limit
NearLimit == BagCardinality(otp_sends) >= MAX_SENDS - 1

NextRace ==
    \/ Tick(RaceInstants)
    \/ \E s \in Slots, e \in RaceEmails, a \in RaceAddrs :
            /\ (Quiet /\ s = 1) \/ NearLimit
            /\ SendOtpStart(s, e, a.xf, a.ip, MaxRows)
    \/ \E s \in Slots : SendOtpCountEmail(s)
    \/ \E s \in Slots : SendOtpCountIp(s, RaceDraws)
    \/ \E s \in Slots : SendOtpDelete(s)
    \/ \E s \in Slots : SendOtpInsert(s)
    \/ \E s \in Slots : SendOtpRecord(s)
    \/ \E s \in Slots : SendOtpSend(s)
    \/ \E s \in Slots : SendOtpCatch(s)

SpecRace == Init /\ [][NextRace]_vars

\* overlapping send-otp calls for one destination, few attempts
NextTwin ==
    \/ \E s \in Slots, e \in RaceEmails, a \in RaceAddrs :
            SendOtpStart(s, e, a.xf, a.ip, MaxCodeRows)
    \/ \E s \in Slots : SendOtpCountEmail(s)
    \/ \E s \in Slots : SendOtpCountIp(s, CodeDraws)
    \/ \E s \in Slots : SendOtpDelete(s)
    \/ \E s \in Slots : SendOtpInsert(s)
    \/ \E s \in Slots : SendOtpRecord(s)
    \/ \E s \in Slots : SendOtpSend(s)
    \/ \E s \in Slots : SendOtpCatch(s)

SpecTwin == Init /\ [][NextTwin]_vars

\* verify-otp calls that overlap each other and a send-otp call
OverlapCodes == {"100000", "999999"}

NextOverlap ==
    \/ Register("a@x.com")
    \/ \E e \in RaceEmails, a \in RaceAddrs :
            SendOtpStart(1, e, a.xf, a.ip, MaxCodeRows)
    \/ SendOtpCountEmail(1)
    \/ SendOtpCountIp(1, CodeDraws)
    \/ SendOtpDelete(1)
    \/ SendOtpInsert(1)
    \/ SendOtpRecord(1)
    \/ SendOtpSend(1)
    \/ SendOtpCatch(1)
    \/ \E s \in Slots, e \in RaceEmails, c \in OverlapCodes : VerifyStart(s, e, c)
    \/ \E s \in Slots : VerifyGet(s)
    \/ \E s \in Slots : VerifyUpdate(s)
    \/ \E s \in Slots : VerifyDelete(s)

SpecOverlap == Init /\ [][NextOverlap]_vars

(* ------------------------- chat relay: helpers ------------------------ *)

\* a stream chunk is <<>> (its delta has no content) or <<text>>
\* chunk.choices[0]?.delta?.content, and `if (token)`
HasToken(chunk) == Len(chunk) = 1 /\ chunk[1] # ""

\* INSERT INTO messages (chat_id, role, content)
InsertMessage(rows, chatId, role, content) ==
    Append(rows, [chat_id |-> chatId, role |-> role, content |-> content])

\* variant: the rows are returned newest first
HistoryNewestFirst(rows, chatId) ==
    LET mine == SelectSeq(rows, LAMBDA r : r.chat_id = chatId)
    IN  [i \in 1 .. Len(mine) |->
            [role |-> mine[Len(mine) + 1 - i].role,
             content |-> mine[Len(mine) + 1 - i].content]]

\* SELECT role, content FROM messages WHERE chat_id=?
History(rows, chatId) ==
    LET mine == SelectSeq(rows, LAMBDA r : r.chat_id = chatId)
    IN  [i \in 1 .. Len(mine) |->
            [role |-> mine[i].role, content |-> mine[i].content]]

\* originalWrite(chunk): the text reaches the client while the connection is
\* up; on a closed connection the write is dropped without an exception
OriginalWrite(c, token) == IF c.open THEN c.sink \o token ELSE c.sink

\* variant: the wrapper assigns instead of appending
TeeWriteAssign(c, token) ==
    [c EXCEPT !.full = token, !.sink = OriginalWrite(c, token)]

\* the replaced res.write: full += chunk; originalWrite(chunk)
TeeWrite(c, token) ==
    [c EXCEPT !.full = @ \o token, !.sink = OriginalWrite(c, token)]

\* auth(): the Authorization header is absent (<<>>), carries a token that
\* jwt.verify rejects (<<"Bearer", 0>>), or one signed for the user id
Auth(header) ==
    IF header = <<>> THEN [ok |-> FALSE, status |-> 401, error |-> "No token"]
    ELSE IF Len(header) < 2 \/ header[2] = 0
    THEN [ok |-> FALSE, status |-> 401, error |-> "Invalid token"]
    ELSE [ok |-> TRUE, id |-> header[2]]

\* an invocation that has begun and not ended
ChatActive(c) == c.pc \notin {"idle", "done"}

(* ------------------------- chat relay: actions ------------------------ *)

\* POST /api/chat-stream/:chatId once auth has set req.user, up to the first
\* await.  Each invocation takes room for its user turn and its reply.
ChatStart(s, user, chatId, message, maxMessages) ==
    /\ cs[s].pc \in {"idle", "done"}
    /\ Len(messages) + 2 * (1 + Cardinality({t \in Slots : ChatActive(cs[t])}))
            <= maxMessages
    /\ cs' = [t \in Slots |->
                IF t = s
                THEN [CsIdle EXCEPT !.pc = "db_user", !.user = user,
                        !.chatId = chatId, !.message = message,
                        !.alone = ~\E o \in Slots \ {s} :
                                    ChatActive(cs[o]) /\ cs[o].chatId = chatId]
                ELSE IF ChatActive(cs[t]) /\ cs[t].chatId = chatId
                THEN [cs[t] EXCEPT !.alone = FALSE]
                ELSE cs[t]]
    /\ UNCHANGED <<otpVars, messages, chats, ms>>

\* db.run(INSERT INTO messages ... "user", message)
ChatInsertUser(s) ==
    /\ cs[s].pc = "db_user"
    /\ messages' = InsertMessage(messages, cs[s].chatId, "user", cs[s].message)
    /\ cs' = [cs EXCEPT ![s] =
                [@ EXCEPT !.pc = "db_history", !.turn = Len(messages) + 1]]
    /\ UNCHANGED <<otpVars, chats, ms>>

\* db.all(SELECT role, content ...); res.write is wrapped; streamChat is called
ChatReadHistory(s) ==
    /\ cs[s].pc = "db_history"
    /\ cs' = [cs EXCEPT ![s] =
                [@ EXCEPT !.pc = "create",
                    !.history = History(messages, cs[s].chatId), !.full = ""]]
    /\ UNCHANGED <<otpVars, messages, chats, ms>>

\* openai.chat.completions.create(...) resolves with a stream, or rejects
ChatCreate(s) ==
    /\ cs[s].pc = "create"
    /\ \/ cs' = [cs EXCEPT ![s].pc = "stream"]
       \/ cs' = [cs EXCEPT ![s].pc = "catch"]
    /\ UNCHANGED <<otpVars, messages, chats, ms>>

\* variant: every fragment is also stored as it arrives
ChatChunkSaving(s, chunk, maxChunks) ==
    /\ cs[s].pc = "stream"
    /\ Len(cs[s].produced) < maxChunks
    /\ cs' = [cs EXCEPT ![s] =
                [(IF HasToken(chunk) THEN TeeWrite(@, chunk[1]) ELSE @)
                    EXCEPT !.produced = Append(@, chunk)]]
    /\ messages' = IF HasToken(chunk)
                   THEN InsertMessage(messages, cs[s].chatId, "assistant", chunk[1])
                   ELSE messages
    /\ UNCHANGED <<otpVars, chats, ms>>

\* one turn of `for await (const chunk of stream)`
ChatChunk(s, chunk, maxChunks) ==
    /\ cs[s].pc = "stream"
    /\ Len(cs[s].produced) < maxChunks
    /\ cs' = [cs EXCEPT ![s] =
                [(IF HasToken(chunk) THEN TeeWrite(@, chunk[1]) ELSE @)
                    EXCEPT !.produced = Append(@, chunk)]]
    /\ UNCHANGED <<otpVars, messages, chats, ms>>

\* the stream is exhausted: streamChat returns
ChatStreamEnd(s) ==
    /\ cs[s].pc = "stream"
    /\ cs' = [cs EXCEPT ![s].pc = "db_assistant"]
    /\ UNCHANGED <<otpVars, messages, chats, ms>>

\* the stream raises: streamChat throws into the handler's catch
ChatStreamError(s) ==
    /\ cs[s].pc = "stream"
    /\ cs' = [cs EXCEPT ![s].pc = "catch"]
    /\ UNCHANGED <<otpVars, messages, chats, ms>>

\* db.run(INSERT INTO messages ... "assistant", full); res.end()
ChatInsertAssistant(s) ==
    /\ cs[s].pc = "db_assistant"
    /\ messages' = InsertMessage(messages, cs[s].chatId, "assistant", cs[s].full)
    /\ cs' = [cs EXCEPT ![s] = [@ EXCEPT !.pc = "done", !.ended = TRUE]]
    /\ UNCHANGED <<otpVars, chats, ms>>

\* catch (err): console.error(...); res.end()
ChatCatch(s) ==
    /\ cs[s].pc = "catch"
    /\ cs' = [cs EXCEPT ![s] =
                [@ EXCEPT !.pc = "done", !.err = TRUE, !.ended = TRUE]]
    /\ UNCHANGED <<otpVars, messages, chats, ms>>

\* the client goes away while the invocation runs: the handler registers no
\* listener for it and nothing else of the invocation changes
ClientClose(s) ==
    /\ ChatActive(cs[s])
    /\ cs[s].open
    /\ cs' = [cs EXCEPT ![s].open = FALSE]
    /\ UNCHANGED <<otpVars, messages, chats, ms>>

\* inputs of the chat scenario
ChatIds == {1, 2}
ChatTexts == {"hi"}
ChunkSet == {<<>>, <<"">>, <<"a">>, <<"b">>}

NextChat ==
    \/ \E c \in ChatIds, m \in ChatTexts :
            Quiet /\ ChatStart(1, 1, c, m, MaxMessages)
    \/ ChatInsertUser(1)
    \/ ChatReadHistory(1)
    \/ ChatCreate(1)
    \/ \E k \in ChunkSet : ChatChunk(1, k, MaxChunks)
    \/ ChatStreamEnd(1)
    \/ ChatStreamError(1)
    \/ ChatInsertAssistant(1)
    \/ ChatCatch(1)

SpecChat == Init /\ [][NextChat]_vars

\* the chat scenario with a client that may disconnect
NextDrop ==
    \/ \E c \in ChatIds, m \in ChatTexts :
            Quiet /\ ChatStart(1, 1, c, m, MaxMessages)
    \/ ChatInsertUser(1)
    \/ ChatReadHistory(1)
    \/ ChatCreate(1)
    \/ \E k \in ChunkSet : ChatChunk(1, k, MaxChunks)
    \/ ChatStreamEnd(1)
    \/ ChatStreamError(1)
    \/ ChatInsertAssistant(1)
    \/ ChatCatch(1)
    \/ ClientClose(1)

SpecDrop == Init /\ [][NextDrop]_vars

\* inputs of the scenario with overlapping invocations
TurnChunks == {<<"a">>}

NextTurns ==
    \/ \E s \in Slots, c \in ChatIds, m \in ChatTexts :
            ChatStart(s, 1, c, m, MaxMessages)
    \/ \E s \in Slots : ChatInsertUser(s)
    \/ \E s \in Slots : ChatReadHistory(s)
    \/ \E s \in Slots : ChatCreate(s)
    \/ \E s \in Slots, k \in TurnChunks : ChatChunk(s, k, MaxTurnChunks)
    \/ \E s \in Slots : ChatStreamEnd(s)
    \/ \E s \in Slots : ChatStreamError(s)
    \/ \E s \in Slots : ChatInsertAssistant(s)
    \/ \E s \in Slots : ChatCatch(s)

SpecTurns == Init /\ [][NextTurns]_vars

(* ---------------------- conversations and listing --------------------- *)

\* POST /api/chat once auth has set req.user:
\* INSERT INTO chats (user_id, title) VALUES (req.user.id, "New Chat")
CreateChat(user, maxChats) ==
    /\ Len(chats) < maxChats
    /\ chats' = Append(chats, [user_id |-> user])
    /\ UNCHANGED <<otpVars, messages, cs, ms>>

\* GET /api/messages/:chatId once auth has set req.user, up to the await
MessagesStart(s, user, chatId) ==
    /\ ms[s].pc \in {"idle", "done"}
    /\ ms' = [ms EXCEPT ![s] =
                [MsIdle EXCEPT !.pc = "db_all", !.user = user, !.chatId = chatId]]
    /\ UNCHANGED <<otpVars, messages, cs, chats>>

\* db.all(SELECT role, content FROM messages WHERE chat_id=?); res.json(msgs)
MessagesAll(s) ==
    /\ ms[s].pc = "db_all"
    /\ ms' = [ms EXCEPT ![s] =
                [@ EXCEPT !.pc = "done",
                    !.res = [status |-> 200,
                             body |-> History(messages, ms[s].chatId)]]]
    /\ UNCHANGED <<otpVars, messages, cs, chats>>

\* inputs of the ownership scenario
OwnerHeaders == {<<>>, <<"Bearer", 0>>, <<"Bearer", 1>>, <<"Bearer", 2>>}
OwnerIds == {1, 2}
OwnerChunks == {<<"a">>}

NextOwner ==
    \/ \E h \in OwnerHeaders : Auth(h).ok /\ CreateChat(Auth(h).id, MaxChats)
    \/ \E h \in OwnerHeaders, c \in OwnerIds, m \in ChatTexts :
            Auth(h).ok /\ Quiet /\ ChatStart(1, Auth(h).id, c, m, MaxMessages)
    \/ ChatInsertUser(1)
    \/ ChatReadHistory(1)
    \/ ChatCreate(1)
    \/ \E k \in OwnerChunks : ChatChunk(1, k, MaxChunks)
    \/ ChatStreamEnd(1)
    \/ ChatStreamError(1)
    \/ ChatInsertAssistant(1)
    \/ ChatCatch(1)
    \/ \E h \in OwnerHeaders, c \in OwnerIds :
            Auth(h).ok /\ Quiet /\ MessagesStart(1, Auth(h).id, c)
    \/ MessagesAll(1)

SpecOwner == Init /\ [][NextOwner]_vars

(* ------------------- properties: one-time codes ----------------------- *)

\* the rows of otp_sends for destination D
AttemptsOf(D) == {r \in DOMAIN otp_sends : r.email = D}

\* how many rows of the bag `sends` are in the set S of its rows
CountRows(sends, S) == BagCardinality([r \in S |-> sends[r]])

\* the timestamp of the most recent row of D in `sends`
NewestOf(sends, D) ==
    CHOOSE t \in {r.ts : r \in {x \in DOMAIN sends : x.email = D}} :
        \A r \in {x \in DOMAIN sends : x.email = D} : r.ts <= t

\* the least whole number of seconds that covers the given milliseconds
SecondsUp(millis) ==
    CHOOSE k \in 0 .. 901 : 1000 * (k - 1) < millis /\ millis <= 1000 * k

\* some 15-minute window [w, w + 15min) holds 5 recorded attempts for D and
\* the instant t
FiveInWindow(D, t) ==
    \E w \in {r.ts : r \in AttemptsOf(D)} :
        /\ w <= t /\ t < w + 900000
        /\ CountRows(otp_sends,
                {r \in AttemptsOf(D) : w <= r.ts /\ r.ts < w + 900000}) >= 5

\* C1: once 5 attempts for a destination are recorded within one 15-minute
\* window, a further (non-overlapping) send-otp call for it inside that window
\* is answered 429 with retryAfter = ceil((newest attempt + 15min - now)/1000),
\* 0 < retryAfter <= 900, and nothing is stored, recorded or mailed.
C1_SixthCallRateLimited ==
    [][\A s \in Slots :
        (/\ so[s].pc = "db_all"
         /\ so'[s].pc # "db_all"
         /\ FiveInWindow(so[s].email, so[s].nowTs))
        => /\ so'[s].pc = "done"
           /\ so'[s].res.status = 429
           /\ "retryAfter" \in DOMAIN so'[s].res
           /\ so'[s].res.retryAfter =
                SecondsUp(NewestOf(otp_sends, so[s].email) + 900000 - so[s].nowTs)
           /\ so'[s].res.retryAfter > 0
           /\ so'[s].res.retryAfter <= 900
           /\ mails' = mails
           /\ otps' = otps
           /\ otp_sends' = otp_sends]_vars

\* a call was rejected with 1 second left of a block that 5 attempts caused
C1_Witness ==
    \E s \in Slots :
        /\ so[s].pc = "done"
        /\ so[s].res.status = 429
        /\ "retryAfter" \in DOMAIN so[s].res
        /\ so[s].res.retryAfter = 1
        /\ FiveInWindow(so[s].email, so[s].nowTs)

\* the row a send-otp call records
OwnRow(s) == [email |-> so[s].email, ip |-> so[s].ip, ts |-> so[s].nowTs]

\* otp_sends as it was when call s began: calls do not overlap, so it is the
\* table without the row the call itself has recorded
PriorSends(s) ==
    IF \/ so[s].pc \in {"send", "catch"}
       \/ so[s].pc = "done" /\ so[s].res.status \in {200, 500}
    THEN otp_sends (-) SetToBag({OwnRow(s)})
    ELSE otp_sends

\* call s is over; when it began its destination was rate-limited (5 attempts
\* in the 15 minutes up to the newest one), 15 minutes had passed since that
\* newest attempt, its address was below the address limit, and the e-mail
\* provider did not fail
C2_Case(s) ==
    LET prior == PriorSends(s)
        D == so[s].email
    IN  /\ so[s].pc = "done"
        /\ so[s].res.status \notin {400, 500}
        /\ \E r \in DOMAIN prior : r.email = D
        /\ CountRows(prior,
                {r \in DOMAIN prior :
                    r.email = D /\ r.ts > NewestOf(prior, D) - 900000}) >= 5
        /\ NewestOf(prior, D) + 900000 <= so[s].nowTs
        /\ CountRows(prior,
                {r \in DOMAIN prior :
                    r.ip = so[s].ip /\ r.ts > so[s].nowTs - 900000}) < 15

\* C2: a call for a rate-limited destination made 15 minutes or more after the
\* destination's most recent attempt, from an address below its own limit and
\* with the provider working, is not rejected: it is answered 200.
C2_UnblockedAfterFifteenMinutes ==
    \A s \in Slots : C2_Case(s) => so[s].res.status = 200

C2_Witness ==
    \E s \in Slots : C2_Case(s) /\ so[s].res.status = 200

\* the history records of code c for destination D
IssuedAs(D, c) == {r \in issued : r.email = D /\ r.code = c}

\* verify-otp instance s takes the step that looks the code up and checks it
VerifyDecides(s) == vo[s].pc = "db_get" /\ vo'[s].pc # "db_get"

\* ... and answers 400 without touching the verified flags
VerifyFails(s) ==
    /\ vo'[s].pc = "done"
    /\ vo'[s].res.status = 400
    /\ users' = users

\* C3: a code is single use.  The first verify-otp of an issued code that is
\* neither expired nor replaced succeeds (200, verified flag set, row deleted);
\* a later verify-otp of that code, with no new issue of it in between, is
\* answered 400.
C3_SingleUse ==
    [][\A s \in Slots :
        /\ (/\ VerifyDecides(s)
            /\ \E r \in IssuedAs(vo[s].email, vo[s].code) :
                    r.st = "live" /\ now <= r.at + 300000)
           => vo'[s].pc = "db_update"
        /\ (vo[s].pc = "db_update" /\ vo'[s] # vo[s])
           => /\ vo'[s].pc = "db_delete"
              /\ \A e \in DOMAIN users : e = vo[s].email => users'[e] = 1
        /\ (vo[s].pc = "db_delete" /\ vo'[s] # vo[s])
           => /\ vo'[s].pc = "done"
              /\ vo'[s].res.status = 200
              /\ \A r \in DOMAIN otps' : r.email # vo[s].email
        /\ (/\ VerifyDecides(s)
            /\ \E r \in IssuedAs(vo[s].email, vo[s].code) : r.st = "used")
           => VerifyFails(s)]_vars

\* the second verify-otp of a code that was used was answered 400
C3_Witness ==
    \E s \in Slots :
        /\ vo[s].pc = "done"
        /\ vo[s].res.status = 400
        /\ \E r \in IssuedAs(vo[s].email, vo[s].code) :
                r.st = "used" /\ vo[s].checkTs <= r.at + 300000
        /\ vo[s].email \in DOMAIN users
        /\ users[vo[s].email] = 1

\* C4: expiry is enforced at read time.  verify-otp of a code issued at time
\* `at` is answered 400 and sets no verified flag when Date.now() is past
\* at + 5 minutes, even though its row is still stored; up to and including
\* at + 5 minutes the matching, unreplaced, unused code verifies.
C4_ExpiryAtReadTime ==
    [][\A s \in Slots :
        /\ (/\ VerifyDecides(s)
            /\ \E r \in IssuedAs(vo[s].email, vo[s].code) : r.at + 300000 < now)
           => VerifyFails(s) /\ otps' = otps
        /\ (/\ VerifyDecides(s)
            /\ \E r \in IssuedAs(vo[s].email, vo[s].code) :
                    r.st = "live" /\ now <= r.at + 300000)
           => vo'[s].pc = "db_update"]_vars

\* a never-used code, its row still stored, was refused after its expiry
C4_Witness ==
    \E s \in Slots :
        /\ vo[s].pc = "done"
        /\ vo[s].res.status = 400
        /\ \E r \in IssuedAs(vo[s].email, vo[s].code) :
                r.st = "live" /\ r.at + 300000 < vo[s].checkTs
        /\ MatchingOtps(otps, vo[s].email, vo[s].code) # {}

\* C5: once send-otp has stored a new code for a destination, an older,
\* unexpired code of that destination, different from the new one, is
\* answered 400 by verify-otp, whether or not the new code's e-mail went out.
C5_NewCodeInvalidatesOld ==
    [][\A s \in Slots :
        (/\ VerifyDecides(s)
         /\ \E r \in IssuedAs(vo[s].email, vo[s].code) :
                r.st = "replaced" /\ now <= r.at + 300000)
        => VerifyFails(s)]_vars

\* an unexpired old code was refused after a new code was stored whose e-mail
\* the provider failed to send
C5_Witness ==
    \E s \in Slots :
        /\ vo[s].pc = "done"
        /\ vo[s].res.status = 400
        /\ \E r \in IssuedAs(vo[s].email, vo[s].code) :
                r.st = "replaced" /\ vo[s].checkTs <= r.at + 300000
        /\ \E t \in Slots, r2 \in issued :
                /\ r2.email = vo[s].email
                /\ r2.st = "live"
                /\ r2.at < vo[s].checkTs
                /\ so[t].pc = "done"
                /\ so[t].res.status = 500
                /\ so[t].email = r2.email
                /\ so[t].code = r2.code

\* how many recorded attempts of address A lie in the 15 minutes before t
AddrCount(A, t) ==
    CountRows(otp_sends, {r \in DOMAIN otp_sends : r.ip = A /\ r.ts > t - 900000})

\* C9: while 15 or more attempts of a client address lie in the last 15
\* minutes, a send-otp call from that address is answered 429 whatever the
\* destination, and it stores no code, records no attempt and sends no mail.
C9_AddressLimit ==
    [][\A s \in Slots :
        (/\ so[s].pc \in {"db_all", "db_get"}
         /\ so'[s] # so[s]
         /\ AddrCount(so[s].ip, so[s].nowTs) >= 15)
        => /\ \/ so[s].pc = "db_all" /\ so'[s].pc = "db_get"
              \/ so'[s].pc = "done" /\ so'[s].res.status = 429
           /\ otps' = otps
           /\ otp_sends' = otp_sends
           /\ mails' = mails
           /\ issued' = issued]_vars

\* a destination without any attempt was refused, late in the window, because
\* of the address
C9_Witness ==
    \E s \in Slots :
        /\ so[s].pc = "done"
        /\ so[s].res.status = 429
        /\ "retryAfter" \notin DOMAIN so[s].res
        /\ so[s].nowTs = 900000 - 1
        /\ AddrCount(so[s].ip, so[s].nowTs) >= 15
        /\ AttemptsOf(so[s].email) = {}
        /\ \A r \in DOMAIN otps : r.email # so[s].email

\* C10: when the provider rejects the send, the attempt is already recorded
\* with the call's destination, address and time, so the queries of later
\* calls count it, and the call is answered 500.
C10_FailedSendIsCharged ==
    [][\A s \in Slots :
        /\ (so[s].pc = "send" /\ so'[s].pc = "catch")
           => /\ OwnRow(s) \in DOMAIN otp_sends'
              /\ BagCardinality(
                    RecentSends(otp_sends', so[s].email, so[s].nowTs - 1)) >= 1
              /\ IpCount(otp_sends', so[s].ip, so[s].nowTs - 1) >= 1
        /\ (so[s].pc = "catch" /\ so'[s] # so[s])
           => /\ so'[s].pc = "done"
              /\ so'[s].res.status = 500
              /\ otp_sends' = otp_sends
              /\ OwnRow(s) \in DOMAIN otp_sends]_vars

\* a call whose send failed is answered 500, and with its own attempt counted
\* the destination is blocked
C10_Witness ==
    \E s \in Slots :
        /\ so[s].pc = "done"
        /\ so[s].res.status = 500
        /\ OwnRow(s) \in DOMAIN otp_sends
        /\ EmailGate(otp_sends, so[s].email, so[s].nowTs).blocked
        /\ ~EmailGate(PriorSends(s), so[s].email, so[s].nowTs).blocked

(* --------------------- properties: chat relay ------------------------- *)

\* the text fragments of a sequence of chunks, concatenated in arrival order
RECURSIVE JoinAll(_)
JoinAll(chunks) ==
    IF chunks = <<>> THEN ""
    ELSE (IF Len(Head(chunks)) = 1 THEN Head(chunks)[1] ELSE "")
            \o JoinAll(Tail(chunks))

\* the assistant turn an invocation owes the conversation
ReplyRow(s) ==
    [chat_id |-> cs[s].chatId, role |-> "assistant",
     content |-> JoinAll(cs[s].produced)]

\* C6: when the model stream completes normally after the fragments f1..fn,
\* the invocation appends one assistant turn whose content is f1+...+fn in
\* arrival order, the client sink has received the same text, and while
\* streaming the captured text and the written text are the same.
C6_ReplyIsConcatenation ==
    [][\A s \in Slots :
        /\ (cs[s].pc = "stream" /\ cs'[s].pc \notin {"stream", "catch"})
           => cs'[s].pc = "db_assistant"
        /\ (cs[s].pc = "db_assistant" /\ cs'[s] # cs[s])
           => /\ messages' = Append(messages, ReplyRow(s))
              /\ cs[s].sink = JoinAll(cs[s].produced)
              /\ cs'[s].pc = "done"
              /\ ~cs'[s].err
        /\ (cs'[s].pc \in {"stream", "db_assistant"})
           => /\ cs'[s].full = cs'[s].sink
              /\ cs'[s].sink = JoinAll(cs'[s].produced)]_vars

\* a stream of three chunks, one of them without content, ended normally and
\* its two fragments were stored and written as "ab"
C6_Witness ==
    \E s \in Slots :
        /\ cs[s].pc = "done"
        /\ ~cs[s].err
        /\ cs[s].produced = << <<"a">>, <<>>, <<"b">> >>
        /\ cs[s].sink = "ab"
        /\ Len(messages) >= 2
        /\ messages[Len(messages)] =
                [chat_id |-> cs[s].chatId, role |-> "assistant", content |-> "ab"]
        /\ messages[Len(messages) - 1].role = "user"

\* the invocation has ended through its catch block
EndedInError(s) == cs[s].pc = "done" /\ cs[s].err

\* the newest row of messages is the assistant turn the invocation owes
ReplyIsLastRow(s) ==
    /\ Len(messages) > 0
    /\ messages[Len(messages)] = ReplyRow(s)

\* C7: when the model stream fails after emitting fragments, the invocation
\* still appends one assistant turn holding the fragments emitted so far.
C7_PartialReplyPersisted ==
    \A s \in Slots :
        (/\ EndedInError(s)
         /\ \E i \in 1 .. Len(cs[s].produced) : HasToken(cs[s].produced[i]))
        => ReplyIsLastRow(s)

\* C8: when the model stream emits no fragment, whether it ends normally or
\* fails before the first token, the invocation still appends an assistant
\* turn with empty content.
C8_EmptyReplyPersisted ==
    \A s \in Slots :
        (/\ cs[s].pc = "done"
         /\ \A i \in 1 .. Len(cs[s].produced) : ~HasToken(cs[s].produced[i]))
        => /\ ReplyIsLastRow(s)
           /\ messages[Len(messages)].content = ""

(* ------------------ properties: ownership and ordering ---------------- *)

\* chat c exists and u is not the identity that created it
NotOwner(u, c) == c \in 1 .. Len(chats) /\ chats[c].user_id # u

\* C11: a conversation is used only by its owner.  No chat-stream invocation
\* made as another identity gets as far as appending a turn to it, and a
\* listing made as another identity returns none of its turns.
C11_OwnerOnly ==
    \A s \in Slots :
        /\ (cs[s].pc \notin {"idle", "db_user"}) => ~NotOwner(cs[s].user, cs[s].chatId)
        /\ (ms[s].pc = "done" /\ NotOwner(ms[s].user, ms[s].chatId))
           => ms[s].res.body = <<>>

\* invocation s takes a step of its own
Moves(s) == cs'[s].pc # cs[s].pc \/ cs'[s].produced # cs[s].produced

\* the order of the events of one invocation
EventOrder ==
    {<<"idle", "db_user">>, <<"done", "db_user">>, <<"db_user", "db_history">>,
     <<"db_history", "create">>, <<"create", "stream">>, <<"create", "catch">>,
     <<"stream", "stream">>, <<"stream", "db_assistant">>, <<"stream", "catch">>,
     <<"db_assistant", "done">>, <<"catch", "done">>}

\* the user turn of invocation s
UserRow(s) ==
    [chat_id |-> cs[s].chatId, role |-> "user", content |-> cs[s].message]

\* C12: the events of one invocation are strictly ordered.  The user turn is
\* written, then the history is read (and holds that turn), then the model is
\* invoked; fragments are forwarded only while streaming; the invocation
\* writes to the store only at its first step (the user turn) and, at most
\* once and after the last fragment, at its last (the assistant turn, when
\* everything produced has been forwarded); no write falls between fragments.
C12_EventsInOrder ==
    [][\A s \in Slots :
        Moves(s) =>
            /\ <<cs[s].pc, cs'[s].pc>> \in EventOrder
            /\ (messages' # messages) <=> (cs[s].pc \in {"db_user", "db_assistant"})
            /\ (cs[s].pc = "db_user") => messages' = Append(messages, UserRow(s))
            /\ (cs[s].pc = "db_history")
               => /\ cs[s].turn \in 1 .. Len(messages)
                  /\ messages[cs[s].turn] = UserRow(s)
                  /\ cs[s].produced = <<>>
            /\ (cs'[s].sink # cs[s].sink \/ cs'[s].full # cs[s].full)
               => (cs[s].pc = "stream" /\ cs'[s].pc = "stream") \/ cs'[s].pc = "db_user"
            /\ (cs[s].pc = "db_assistant")
               => /\ cs'[s].produced = cs[s].produced
                  /\ cs[s].sink = JoinAll(cs[s].produced)
                  /\ messages' = Append(messages,
                        [chat_id |-> cs[s].chatId, role |-> "assistant",
                         content |-> cs[s].full])]_vars

\* an invocation that another one overlapped has forwarded two fragments and
\* then written its assistant turn, its user turn being stored before it
C12_Witness ==
    \E s \in Slots :
        /\ cs[s].pc = "done"
        /\ ~cs[s].err
        /\ ~cs[s].alone
        /\ cs[s].sink = "aa"
        /\ messages[cs[s].turn] = UserRow(s)
        /\ \E i \in cs[s].turn + 1 .. Len(messages) :
                messages[i] = [chat_id |-> cs[s].chatId, role |-> "assistant",
                               content |-> "aa"]

\* the ids of the stored turns of conversation c
TurnIds(c) == {i \in 1 .. Len(messages) : messages[i].chat_id = c}

\* the position of turn i among the turns of conversation c
Rank(c, i) == Cardinality({j \in TurnIds(c) : j <= i})

\* C13: the history an invocation reads for the model is the whole stored
\* turn sequence of its conversation, in creation order; it holds the user
\* turn the invocation itself appended, and that turn is its last element
\* when no other invocation on the conversation has overlapped.
C13_HistoryIsStoredSequence ==
    [][\A s \in Slots :
        (cs[s].pc = "db_history" /\ cs'[s].pc = "create")
        => LET c == cs[s].chatId
               h == cs'[s].history
           IN  /\ Len(h) = Cardinality(TurnIds(c))
               /\ \A i \in TurnIds(c) :
                    h[Rank(c, i)] = [role |-> messages[i].role,
                                     content |-> messages[i].content]
               /\ cs[s].turn \in TurnIds(c)
               /\ h[Rank(c, cs[s].turn)] = [role |-> "user", content |-> cs[s].message]
               /\ cs[s].alone => Rank(c, cs[s].turn) = Len(h)]_vars

\* an overlapped invocation has read a history of three turns that holds its
\* own user turn, followed by a turn of the other invocation
C13_Witness ==
    \E s \in Slots :
        /\ cs[s].pc = "create"
        /\ ~cs[s].alone
        /\ Len(cs[s].history) = 3
        /\ Rank(cs[s].chatId, cs[s].turn) < 3
        /\ cs[s].history[Rank(cs[s].chatId, cs[s].turn)] =
                [role |-> "user", content |-> cs[s].message]
        /\ cs[s].history[3].role = "assistant"

\* C14: when the client disconnects mid-stream, after some fragments were
\* delivered, the stream counts as ended: nothing more is captured, and the
\* assistant turn the invocation appends holds exactly the delivered text.
C14_DisconnectEndsStream ==
    \A s \in Slots :
        (/\ cs[s].pc = "done"
         /\ ~cs[s].err
         /\ ~cs[s].open
         /\ cs[s].sink # "")
        => /\ cs[s].full = cs[s].sink
           /\ Len(messages) > 0
           /\ messages[Len(messages)] =
                [chat_id |-> cs[s].chatId, role |-> "assistant",
                 content |-> cs[s].sink]

(* ------------------- properties: frame conditions --------------------- *)

\* the stored requests for the destination and code that call s presents
Presented(s) ==
    {r \in DOMAIN otps : r.email = vo[s].email /\ r.code = vo[s].code}

\* C17: verify-otp fails when no stored request has the destination and
\* exactly the code presented, or the request is past its expiry, and a
\* failing call changes nothing in the store: no verified flag is set, no
\* request is deleted or altered.  A verified flag is set, and a request is
\* deleted by verify-otp, only in a call that passed the check.
C17_FailedVerifyChangesNothing ==
    [][/\ \A s \in Slots :
            /\ VerifyDecides(s)
               => /\ (\A r \in Presented(s) : r.expires_at < now)
                     => vo'[s].pc = "done"
                  /\ (vo'[s].pc = "done") => vo'[s].res.status = 400
                  /\ (vo'[s].pc # "done")
                     => /\ vo'[s].pc = "db_update"
                        /\ \E r \in Presented(s) : r.expires_at >= now
                  /\ UNCHANGED <<users, otps, otp_sends, mails, issued>>
            /\ (vo'[s] # vo[s] /\ otps' # otps)
               => vo[s].pc = "db_delete" /\ vo'[s].res.status = 200
       /\ \A e \in DOMAIN users :
            (users'[e] # users[e])
            => \E s \in Slots :
                    /\ vo[s].pc = "db_update"
                    /\ vo'[s].pc = "db_delete"
                    /\ vo[s].email = e]_vars

\* a wrong code was refused while the destination's request was stored and
\* unexpired; the request is still there and the user is still unverified
C17_Witness ==
    \E s \in Slots :
        /\ vo[s].pc = "done"
        /\ vo[s].res.status = 400
        /\ vo[s].code # ""
        /\ vo[s].email \in DOMAIN users
        /\ users[vo[s].email] = 0
        /\ \E r \in DOMAIN otps :
                /\ r.email = vo[s].email
                /\ r.code # vo[s].code
                /\ r.expires_at >= now
                /\ r.expires_at - 300000 <= vo[s].checkTs

\* verify-otp of code c for destination D would pass its check at time t
Verifiable(rows, D, c, t) ==
    \E r \in DOMAIN rows : r.email = D /\ r.code = c /\ r.expires_at >= t

\* C18: a send-otp call that either rate-limit check rejects changes nothing.
\* Up to and including the 429 it writes no table and sends no mail: the
\* stored request of the destination is kept and verifies as before, and no
\* attempt is recorded, so the block is as long as it was.
C18_RejectedRequestChangesNothing ==
    [][\A s \in Slots :
        /\ (so[s].pc \in {"db_all", "db_get"} /\ so'[s] # so[s])
           => UNCHANGED <<users, otps, otp_sends, mails, issued>>
        /\ (so[s].pc # "done" /\ so'[s].pc = "done" /\ so'[s].res.status = 429)
           => /\ so[s].pc \in {"db_all", "db_get"}
              /\ \A r \in DOMAIN otps :
                    Verifiable(otps, r.email, r.code, now)
                    => Verifiable(otps', r.email, r.code, now')
              /\ AttemptsOf(so[s].email)
                    = {r \in DOMAIN otp_sends' : r.email = so[s].email}
              /\ \A r \in DOMAIN otp_sends' : otp_sends'[r] = otp_sends[r]
              /\ BagCardinality(mails') = BagCardinality(mails)]_vars

\* a call for a destination below its own limit was refused because of the
\* address; the destination's earlier code is still stored and unexpired
C18_Witness ==
    \E s \in Slots :
        /\ so[s].pc = "done"
        /\ so[s].res.status = 429
        /\ "retryAfter" \notin DOMAIN so[s].res
        /\ ~EmailGate(otp_sends, so[s].email, so[s].nowTs).blocked
        /\ \E r \in DOMAIN otps : Verifiable(otps, so[s].email, r.code, now)
        /\ AddrCount(so[s].ip, so[s].nowTs) = 15

\* the attempts for the destination of call s in the 15 minutes up to the call
InSlidingWindow(s) ==
    CountRows(otp_sends,
        {r \in DOMAIN otp_sends :
            r.email = so[s].email /\ r.ts > so[s].nowTs - 900000})

\* C19: the per-destination check is a plain sliding-window limiter.  A call
\* is rejected by it exactly when 5 or more attempts for the destination lie
\* in the 15 minutes up to the call; with 5 or more there, the newest is less
\* than 15 minutes old, so "enough attempts but the block is over" never
\* occurs and the block never outlasts the window.
C19_GateIsSlidingWindow ==
    [][\A s \in Slots :
        (so[s].pc = "db_all" /\ so'[s].pc # "db_all")
        => /\ (so'[s].pc = "done" /\ so'[s].res.status = 429)
                <=> (InSlidingWindow(s) >= 5)
           /\ (InSlidingWindow(s) < 5) => so'[s].pc = "db_get"
           /\ (InSlidingWindow(s) >= 5)
              => /\ NewestOf(otp_sends, so[s].email) + 900000 > so[s].nowTs
                 /\ so'[s].res.retryAfter * 1000
                        <= NewestOf(otp_sends, so[s].email) + 900000 - so[s].nowTs + 999
           ]_vars

\* in the last millisecond in which 5 attempts are inside the window the call
\* is rejected, with the block ending together with the window
C19_Witness ==
    \E s \in Slots :
        /\ so[s].pc = "done"
        /\ so[s].res.status = 429
        /\ so[s].nowTs = 900000
        /\ InSlidingWindow(s) = 5
        /\ NewestOf(otp_sends, so[s].email) = 1
        /\ so[s].res.retryAfter = 1

(* ------------------ properties: overlapping requests ------------------ *)

\* the recorded attempts for D in the 15 minutes that begin at w
InWindowFrom(sends, D, w) ==
    CountRows(sends,
        {r \in DOMAIN sends : r.email = D /\ w <= r.ts /\ r.ts < w + 900000})

\* the most attempts for one destination that any 15-minute window holds
\* (a window that holds attempts holds no more than the one that begins at
\* its earliest attempt)
WindowsWithin(limit) ==
    \A r \in DOMAIN otp_sends : InWindowFrom(otp_sends, r.email, r.ts) <= limit

\* C16: the check and the recording of an attempt are separate steps.  As
\* long as no send-otp call has begun while another was running, no
\* 15-minute window holds more than 5 attempts for one destination; two
\* overlapping calls that both pass the check at 4 attempts are both
\* admitted and leave 6 in the window.
C16_NoOverAdmissionWithoutOverlap ==
    ~overlapped => WindowsWithin(5)

\* two overlapping calls for one destination began with 4 attempts in the
\* window, both were answered 200, and the window now holds 6
C16_Witness ==
    \E s, t \in Slots :
        /\ s # t
        /\ overlapped
        /\ so[s].pc = "done" /\ so[s].res.status = 200
        /\ so[t].pc = "done" /\ so[t].res.status = 200
        /\ so[s].email = so[t].email
        /\ LET before == (otp_sends (-) SetToBag({OwnRow(s)})) (-) SetToBag({OwnRow(t)})
               recent(ts) == RecentSends(before, so[s].email, ts - 900000)
           IN  /\ BagCardinality(otp_sends) = BagCardinality(before) + 2
               /\ BagCardinality(recent(so[s].nowTs)) = 4
               /\ BagCardinality(recent(so[t].nowTs)) = 4
        /\ \E r \in DOMAIN otp_sends : InWindowFrom(otp_sends, so[s].email, r.ts) = 6

\* C15: the store never holds two requests for one destination: in every
\* reachable state, whatever the interleaving of send-otp calls, the rows of
\* otps for a destination that are not expired carry one code, in one row.
C15_OneRequestPerDestination ==
    \A r1, r2 \in DOMAIN otps :
        (/\ r1.email = r2.email
         /\ ~OtpExpired(r1, now)
         /\ ~OtpExpired(r2, now))
        => r1 = r2 /\ otps[r1] = 1

\* verify-otp call s takes its last step and answers 200
VerifySucceeds(s) == vo[s].pc = "db_delete" /\ vo'[s].pc = "done"

\* C20: single use holds when calls overlap.  Of the verify-otp calls that
\* present one issued code at most one succeeds, so no call succeeds with a
\* code that a success has used since it was issued; and a verify-otp call
\* that succeeds with an old code deletes no newer code of the destination.
C20_SingleUseUnderOverlap ==
    [][\A s \in Slots :
        VerifySucceeds(s)
        => /\ \A r \in IssuedAs(vo[s].email, vo[s].code) : r.st # "used"
           /\ \A r \in DOMAIN otps :
                (r.email = vo[s].email /\ r.code # vo[s].code) => r \in DOMAIN otps'
       ]_vars

====
